---- MODULE Spec2Model ----
(***************************************************************************)
(* The telemetry store of src/observability.py: the three SQLite tables    *)
(* (metrics, spans, logs), the write path (record_metric, increment,       *)
(* start_span, end_span, log) and the read path (get_metrics, get_trace,   *)
(* get_logs, service_dashboard, alert_rules); and the exporter of          *)
(* src/otel_exporter.py, which posts to a collector.                       *)
(*                                                                         *)
(* Units.  The clock counts ticks of 30 seconds, so one minute is 2 ticks  *)
(* (Minutes).  A stored timestamp is the text datetime.isoformat() makes:  *)
(* here three zero-padded decimal digits of whole minutes, followed by a   *)
(* fraction digit only when the sub-minute part is not zero, the way       *)
(* isoformat() drops ".ffffff" when microsecond = 0.  SQLite compares      *)
(* these texts bytewise (TextLess).  Metric values are in hundredths       *)
(* (0.05 is 5, 500 is 50000), or NaN / +inf / -inf.                        *)
(*                                                                         *)
(* The clock never runs backwards, and uuid.uuid4() never repeats a value: *)
(* its n-th call returns n.  Ids a caller makes up are the ForeignIds.     *)
(* start_span is two steps, the Span object (which takes the timestamp)    *)
(* and the INSERT, because other callers' statements can commit between    *)
(* them and get_trace orders by the timestamp, not by the INSERT.  For     *)
(* callers racing on one span end_span is two steps as well (EndSpanBegin, *)
(* EndSpanUpdate); EndSpan is the two with nothing in between.             *)
(***************************************************************************)
EXTENDS Integers, Sequences, FiniteSets, TLC

\* ------------------------------------------------------------- bounds
Epoch == 200            \* clock value at the first construction
MaxNow == 330           \* the clock stops here
MaxMetricCalls == 2     \* record_metric / increment calls by callers
MaxSpans == 2           \* spans started
MaxLogs == 1            \* log calls where logs are a side matter
MaxLogRows == 12        \* rows of table logs
MaxPosts == 2           \* export_* calls
MaxUuids == 19          \* uuid4() values drawn, for calls that store nothing
MaxConstructs == 2      \* further ObservabilityPlatform() constructions

\* ------------------------------------------------------------- values
NULL == 0               \* Python None / SQL NULL in an id column

Num(n) == [k |-> "num", n |-> n]
NaN == [k |-> "nan", n |-> 0]
PosInf == [k |-> "inf", n |-> 1]
NegInf == [k |-> "inf", n |-> -1]
SqlNull == [k |-> "null", n |-> 0]

\* sqlite3 binds a Python float with sqlite3_bind_double, which stores NaN
\* as NULL; every other float is stored as it is (column "value REAL").
StoreReal(v) == IF v.k = "nan" THEN SqlNull ELSE v

\* Python's v > n for a value read back from the REAL column.
\* None > n raises TypeError (GtRaises).
GtRaises(v) == v.k = "null"
Gt(v, n) ==
  CASE v.k = "num" -> v.n > n
    [] v.k = "inf" -> v.n > 0
    [] OTHER -> FALSE

\* ------------------------------------------------------------- time
Minutes(m) == 2 * m

IsoFormat(t) ==
  LET m == t \div 2
  IN  <<m \div 100, (m \div 10) % 10, m % 10>> \o
        (IF t % 2 = 0 THEN <<>> ELSE <<5>>)

FromIsoFormat(s) ==
  2 * (100 * s[1] + 10 * s[2] + s[3]) + (IF Len(s) > 3 THEN s[4] \div 5 ELSE 0)

\* SQLite's BINARY collation on TEXT: memcmp on the common prefix, then the
\* shorter text is the smaller.
RECURSIVE TextLess(_, _)
TextLess(a, b) ==
  IF b = <<>> THEN FALSE
  ELSE IF a = <<>> THEN TRUE
  ELSE IF Head(a) # Head(b) THEN Head(a) < Head(b)
  ELSE TextLess(Tail(a), Tail(b))

\* ------------------------------------------------------------- names
\* A name is a sequence of atoms.  An atom is one character ("." "%" "_"
\* "x" "X") or a fixed word that is never split.
SERVICES ==
  <<"gateway", "worlds-worker", "dashboard-api", "agents-status", "fleet-manager">>

ServiceMetric(service, field) == <<service, ".">> \o field

\* Python's  needle in name  (literal, case-sensitive).
Contains(name, needle) ==
  \E i \in 0..(Len(name) - Len(needle)) :
    \A j \in 1..Len(needle) : name[i + j] = needle[j]

\* SQLite's LIKE: ASCII letters match without regard to case, "%" matches
\* any run of characters and "_" any one character (never a whole word).
Lower(a) ==
  CASE a = "X" -> "x"
    [] a = "GATEWAY" -> "gateway"
    [] OTHER -> a

OneChar(a) == a \in {".", "%", "_", "x", "X"}

RECURSIVE Like(_, _)
Like(pat, text) ==
  IF pat = <<>> THEN text = <<>>
  ELSE IF Head(pat) = "%"
    THEN Like(Tail(pat), text) \/ (text # <<>> /\ Like(pat, Tail(text)))
  ELSE IF text = <<>> THEN FALSE
  ELSE /\ \/ Head(pat) = "_" /\ OneChar(Head(text))
          \/ Lower(Head(pat)) = Lower(Head(text))
       /\ Like(Tail(pat), Tail(text))

\* ------------------------------------------------------------- state
VARIABLES
  now,        \* datetime.now(), in ticks
  uuids,      \* uuid.uuid4() calls made so far; the n-th call returns n
  platforms,  \* ObservabilityPlatform objects constructed on this store
  metrics,    \* table metrics, in rowid order
  spans,      \* table spans, in rowid order
  logs,       \* table logs, in rowid order
  pending,    \* Span objects built by start_span, INSERT not yet run
  ending,     \* end_span calls whose timestamp is taken, UPDATE not yet run
  wire,       \* HTTP requests the exporter has sent, with their outcome
  ret         \* the last call that returned: what was called, when, result

vars ==
  <<now, uuids, platforms, metrics, spans, logs, pending, ending, wire, ret>>

Returned(op, arg, err, out) ==
  [op |-> op, arg |-> arg, at |-> now, err |-> err, out |-> out]

\* ------------------------------------------------------------- metrics
\* The row INSERT INTO metrics writes for Metric(name, value, labels, type)
\* stamped at clock value t.
MetricRow(id, name, value, labels, t, type) ==
  [id |-> id, name |-> name, value |-> StoreReal(value), labels |-> labels,
   timestamp |-> IsoFormat(t), type |-> type]

\* hash(service) is an integer fixed for the life of one process (positive
\* or negative; Python's % gives a non-negative remainder, like TLA+'s).
HashValues == {-3}
HashFns == {[i \in 1..Len(SERVICES) |-> v] : v \in HashValues}

\* The three record_metric calls _populate_sample_data makes per service,
\* with ids base+1 .. base+15, stamped at t.
SampleRows(h, base, t) ==
  [j \in 1..(3 * Len(SERVICES)) |->
     LET i == ((j - 1) \div 3) + 1
         s == SERVICES[i]
         f == (j - 1) % 3
     IN  MetricRow(base + j,
           CASE f = 0 -> ServiceMetric(s, <<"requests_per_minute">>)
             [] f = 1 -> ServiceMetric(s, <<"error_rate">>)
             [] OTHER -> ServiceMetric(s, <<"p99_latency", "_ms">>),
           CASE f = 0 -> Num(100 * (150 + (h[i] % 100)))
             [] f = 1 -> Num(h[i] % 5)
             [] OTHER -> Num(100 * (100 + (h[i] % 200))),
           {<<"service", s>>}, t, "gauge")]

Init ==
  /\ now = Epoch
  /\ uuids = 3 * Len(SERVICES)
  /\ platforms = 1
  /\ \E h \in HashFns : metrics = SampleRows(h, 0, Epoch)
  /\ spans = <<>>
  /\ logs = <<>>
  /\ pending = {}
  /\ ending = {}
  /\ wire = <<>>
  /\ ret = [op |-> "__init__", arg |-> <<>>, at |-> Epoch, err |-> "none",
            out |-> <<>>]

\* ObservabilityPlatform() again on the same database file.
Construct ==
  /\ platforms <= MaxConstructs
  /\ \E h \in HashFns : metrics' = metrics \o SampleRows(h, uuids, now)
  /\ uuids' = uuids + 3 * Len(SERVICES)
  /\ platforms' = platforms + 1
  /\ ret' = Returned("__init__", <<>>, "none", <<>>)
  /\ UNCHANGED <<now, spans, logs, pending, ending, wire>>

CallerMetrics == Len(metrics) - 3 * Len(SERVICES) * platforms

\* The row of the same name overwritten in place instead of a new row.
UpsertMetric(op, name, value, labels, type) ==
  /\ CallerMetrics < MaxMetricCalls
  /\ uuids' = uuids + 1
  /\ LET row == MetricRow(uuids + 1, name, value, labels, now, type)
         same == {i \in DOMAIN metrics : metrics[i].name = name}
     IN  metrics' = IF same = {} THEN Append(metrics, row)
                    ELSE [i \in DOMAIN metrics |->
                            IF i \in same THEN row ELSE metrics[i]]
  /\ ret' = Returned(op, <<name, value, labels, type>>, "none", uuids + 1)
  /\ UNCHANGED <<now, platforms, spans, logs, pending, ending, wire>>

\* record_metric: uuid4, Metric(...) stamped now, INSERT, return the id.
\* The value is not looked at.
InsertMetric(op, name, value, labels, type) ==
  /\ CallerMetrics < MaxMetricCalls
  /\ uuids' = uuids + 1
  /\ metrics' = Append(metrics, MetricRow(uuids + 1, name, value, labels, now, type))
  /\ ret' = Returned(op, <<name, value, labels, type>>, "none", uuids + 1)
  /\ UNCHANGED <<now, platforms, spans, logs, pending, ending, wire>>

RecordMetric(name, value, labels, type) ==
  InsertMetric("record_metric", name, value, labels, type)

Increment(name, labels) ==
  InsertMetric("increment", name, Num(100), labels, "counter")

\* The cutoff taken from the time the store was opened, not from the call.
MetricsSinceOpenTime(rows, name, since_minutes, t) ==
  LET cutoff == IsoFormat(Epoch - Minutes(since_minutes))
      Hit(r) == /\ TextLess(cutoff, r.timestamp)
                /\ name # <<>> => Like(<<"%">> \o name \o <<"%">>, r.name)
  IN  SelectSeq(rows, Hit)

\* get_metrics(name, labels, since_minutes): labels is accepted and not used.
\* name = <<>> stands for None and for "", which  if name:  treats alike.
MetricsSince(rows, name, since_minutes, t) ==
  LET cutoff == IsoFormat(t - Minutes(since_minutes))
      Hit(r) == /\ TextLess(cutoff, r.timestamp)
                /\ name # <<>> => Like(<<"%">> \o name \o <<"%">>, r.name)
  IN  SelectSeq(rows, Hit)

GetMetrics(name, since_minutes) ==
  /\ ret' = Returned("get_metrics", <<name, since_minutes>>, "none",
                     MetricsSince(metrics, name, since_minutes, now))
  /\ UNCHANGED <<now, uuids, platforms, metrics, spans, logs,
                 pending, ending, wire>>

\* ------------------------------------------------------------- spans
\* Ids a caller can pass that no uuid4() call of this store returned.
ForeignIds == {901}

SpanIds == {spans[i].span_id : i \in DOMAIN spans}
TraceIds == {spans[i].trace_id : i \in DOMAIN spans}

\* start_span up to the Span object: trace_id defaults to a new uuid4, the
\* span_id is a new uuid4, start_ts is datetime.now() at this point.  The
\* INSERT runs later (StartSpanInsert); other callers' statements may commit
\* in between.
StartSpanBegin(service, operation, trace_id, parent_span_id) ==
  /\ Len(spans) + Cardinality(pending) < MaxSpans
  /\ LET fresh == trace_id = NULL
         tid == IF fresh THEN uuids + 1 ELSE trace_id
         sid == IF fresh THEN uuids + 2 ELSE uuids + 1
     IN  /\ uuids' = sid
         /\ pending' = pending \cup
              {[trace_id |-> tid, span_id |-> sid,
                parent_span_id |-> parent_span_id, service |-> service,
                operation |-> operation, start_ts |-> IsoFormat(now),
                end_ts |-> <<>>, status |-> "ok", tags |-> {}]}
  /\ UNCHANGED <<now, platforms, metrics, spans, logs, ending, ret, wire>>

\* The INSERT INTO spans and the return.  span_id is the PRIMARY KEY: an
\* INSERT of a span_id already stored raises sqlite3.IntegrityError.
StartSpanInsert(s) ==
  /\ s \in pending
  /\ pending' = pending \ {s}
  /\ IF s.span_id \in SpanIds
       THEN /\ spans' = spans
            /\ ret' = Returned("start_span", <<s.trace_id>>, "IntegrityError", NULL)
       ELSE /\ spans' = Append(spans, s)
            /\ ret' = Returned("start_span", <<s.trace_id>>, "none", s.span_id)
  /\ UNCHANGED <<now, uuids, platforms, metrics, logs, ending, wire>>

\* The UPDATE without its WHERE clause: every row is ended.
UpdateSpanEndNoWhere(rows, span_id, t, status, tags) ==
  [i \in DOMAIN rows |->
     [rows[i] EXCEPT !.end_ts = IsoFormat(t), !.status = status, !.tags = tags]]

\* An UPDATE that is not one statement: end_ts and status are written, tags
\* are left as they were.
UpdateSpanEndTorn(rows, span_id, t, status, tags) ==
  [i \in DOMAIN rows |->
     IF rows[i].span_id = span_id
       THEN [rows[i] EXCEPT !.end_ts = IsoFormat(t), !.status = status]
       ELSE rows[i]]
\* The INSERT without the PRIMARY KEY on span_id: the row is always added.
InsertSpanNoKey(s) == Append(spans, s)

\* INSERT INTO spans of the Span s: span_id is the PRIMARY KEY, a span_id
\* already stored makes the statement fail and the table stays as it was.
InsertSpan(s) == IF s.span_id \in SpanIds THEN spans ELSE Append(spans, s)

\* start_span with no other caller in between, uuid4() giving tid (used
\* when trace_id is None) and sid; drawn is how many new values these are.
StartSpanWith(service, operation, trace_id, parent_span_id, tid, sid, drawn) ==
  LET s == [trace_id |-> IF trace_id = NULL THEN tid ELSE trace_id,
            span_id |-> sid, parent_span_id |-> parent_span_id,
            service |-> service, operation |-> operation,
            start_ts |-> IsoFormat(now), end_ts |-> <<>>, status |-> "ok",
            tags |-> {}]
      arg == <<trace_id, parent_span_id, service, operation>>
  IN  /\ sid \in SpanIds \/ Len(spans) + Cardinality(pending) < MaxSpans
      /\ uuids' = uuids + drawn
      /\ spans' = InsertSpan(s)
      /\ ret' = IF sid \in SpanIds
                  THEN Returned("start_span", arg, "IntegrityError", NULL)
                  ELSE Returned("start_span", arg, "none", sid)
      /\ UNCHANGED <<now, platforms, metrics, logs, pending, ending, wire>>

\* start_span as uuid4() behaves: every value is new.
StartSpan(service, operation, trace_id, parent_span_id) ==
  IF trace_id = NULL
    THEN StartSpanWith(service, operation, trace_id, parent_span_id,
                       uuids + 1, uuids + 2, 2)
    ELSE StartSpanWith(service, operation, trace_id, parent_span_id,
                       NULL, uuids + 1, 1)

\* start_span when uuid4() gives for span_id a value that is stored as a
\* span_id already, the one way an INSERT with an existing span_id arises.
StartSpanRepeat(service, operation, trace_id, parent_span_id, span_id) ==
  /\ span_id \in SpanIds
  /\ uuids < MaxUuids
  /\ IF trace_id = NULL
       THEN StartSpanWith(service, operation, trace_id, parent_span_id,
                          uuids + 1, span_id, 1)
       ELSE StartSpanWith(service, operation, trace_id, parent_span_id,
                          NULL, span_id, 0)
\* An UPDATE that also rewrites start_ts of the row it ends.
UpdateSpanEndMovesStart(rows, span_id, t, status, tags) ==
  [i \in DOMAIN rows |->
     IF rows[i].span_id = span_id
       THEN [rows[i] EXCEPT !.start_ts = IsoFormat(t), !.end_ts = IsoFormat(t),
                            !.status = status, !.tags = tags]
       ELSE rows[i]]
\* UPDATE spans SET end_ts, status, tags WHERE span_id = ?  on rows.
UpdateSpanEnd(rows, span_id, t, status, tags) ==
  [i \in DOMAIN rows |->
     IF rows[i].span_id = span_id
       THEN [rows[i] EXCEPT !.end_ts = IsoFormat(t), !.status = status,
                            !.tags = tags]
       ELSE rows[i]]

\* end_span: the UPDATE changes the rows it matches, none when there is no
\* such span_id; the rowcount is not looked at and nothing is raised.
EndSpan(span_id, status, tags) ==
  /\ spans' = UpdateSpanEnd(spans, span_id, now, status, tags)
  /\ ret' = Returned("end_span", <<span_id, status, tags>>, "none", NULL)
  /\ UNCHANGED <<now, uuids, platforms, metrics, logs, pending, ending, wire>>

\* end_span among other callers, in two steps.  The parameter tuple of the
\* UPDATE is built first, which evaluates datetime.now(); the statement
\* runs later, and other callers' statements may commit in between.  A
\* caller (a thread or a process) has one call in flight at a time.
EndSpanBegin(caller, span_id, status, tags) ==
  /\ \A e \in ending : e.by # caller
  /\ ending' = ending \cup
       {[by |-> caller, span_id |-> span_id, at |-> now, status |-> status,
         tags |-> tags]}
  /\ UNCHANGED <<now, uuids, platforms, metrics, spans, logs,
                 pending, ret, wire>>

\* The UPDATE of a call begun earlier, one statement in one transaction,
\* and the return.
EndSpanUpdate(e) ==
  /\ e \in ending
  /\ ending' = ending \ {e}
  /\ spans' = UpdateSpanEnd(spans, e.span_id, e.at, e.status, e.tags)
  /\ ret' = Returned("end_span", <<e.span_id, e.status, e.tags>>, "none", NULL)
  /\ UNCHANGED <<now, uuids, platforms, metrics, logs, pending, wire>>
\* All arrangements of the rows of a sequence.
Arrangements(rows) ==
  {[i \in 1..Len(rows) |-> rows[f[i]]] : f \in Permutations(1..Len(rows))}

\* The SELECT without its ORDER BY: rows come in rowid order.
NoOrderBy(rows) == {rows}

\* ORDER BY start_ts ASC: rows with equal start_ts come in any order.
OrderByStartAsc(rows) ==
  {p \in Arrangements(rows) :
     \A i, j \in 1..Len(p) : i < j => ~TextLess(p[j].start_ts, p[i].start_ts)}

\* SELECT * FROM spans WHERE trace_id = ? ORDER BY start_ts ASC
SpansOfTrace(rows, trace_id) ==
  LET Hit(r) == r.trace_id = trace_id
  IN  OrderByStartAsc(SelectSeq(rows, Hit))

\* (end - start).total_seconds() * 1000, one tick being 30 s.
Millis(ticks) == 30000 * ticks

\* The difference taken the wrong way round.
WaterfallStartMinusEnd(found, t) ==
  [i \in 1..Len(found) |->
     LET start == FromIsoFormat(found[i].start_ts)
         end == IF found[i].end_ts # <<>> THEN FromIsoFormat(found[i].end_ts) ELSE t
     IN  [service |-> found[i].service, operation |-> found[i].operation,
          duration_ms |-> Millis(start - end), status |-> found[i].status]]

\* The duration of an in-flight span frozen at zero instead of taken
\* against the clock.
WaterfallFrozen(found, t) ==
  [i \in 1..Len(found) |->
     LET start == FromIsoFormat(found[i].start_ts)
         end == IF found[i].end_ts # <<>> THEN FromIsoFormat(found[i].end_ts) ELSE start
     IN  [service |-> found[i].service, operation |-> found[i].operation,
          duration_ms |-> Millis(end - start), status |-> found[i].status]]
\* if span['end_ts']  is false for NULL (and for "").
Waterfall(found, t) ==
  [i \in 1..Len(found) |->
     LET start == FromIsoFormat(found[i].start_ts)
         end == IF found[i].end_ts # <<>> THEN FromIsoFormat(found[i].end_ts) ELSE t
     IN  [service |-> found[i].service, operation |-> found[i].operation,
          duration_ms |-> Millis(end - start), status |-> found[i].status]]

GetTrace(trace_id) ==
  /\ \E found \in SpansOfTrace(spans, trace_id) :
       ret' = Returned("get_trace", <<trace_id>>, "none",
                [trace_id |-> trace_id, spans |-> found,
                 waterfall |-> Waterfall(found, now)])
  /\ UNCHANGED <<now, uuids, platforms, metrics, spans, logs,
                 pending, ending, wire>>

\* A caller's second get_trace in a row on the same trace: the same call,
\* the caller still holding what the first one returned (before).
GetTraceAgain(trace_id) ==
  /\ ret.op = "get_trace" /\ ret.arg = <<trace_id>>
  /\ \E found \in SpansOfTrace(spans, trace_id) :
       ret' = [op |-> "get_trace", arg |-> <<trace_id>>, at |-> now,
               err |-> "none",
               out |-> [trace_id |-> trace_id, spans |-> found,
                        waterfall |-> Waterfall(found, now)],
               before |-> [at |-> ret.at, out |-> ret.out]]
  /\ UNCHANGED <<now, uuids, platforms, metrics, spans, logs,
                 pending, ending, wire>>
\* ------------------------------------------------------------- logs
Log(service, level, message, trace_id, fields) ==
  /\ Len(logs) < MaxLogRows
  /\ uuids' = uuids + 1
  /\ logs' = Append(logs,
       [id |-> uuids + 1, service |-> service, level |-> level,
        message |-> message, timestamp |-> IsoFormat(now),
        trace_id |-> trace_id, fields |-> fields])
  /\ ret' = Returned("log", <<service, level>>, "none", uuids + 1)
  /\ UNCHANGED <<now, platforms, metrics, spans, pending, ending, wire>>

\* ORDER BY timestamp DESC: rows with equal timestamp come in any order.
\* The rows with the greatest timestamp come first, in any order, then the
\* rest, ordered the same way.
RECURSIVE OrderByTimestampDesc(_)
OrderByTimestampDesc(rows) ==
  IF rows = <<>> THEN {<<>>}
  ELSE LET Top(r) == \A i \in DOMAIN rows : ~TextLess(r.timestamp, rows[i].timestamp)
           Rest(r) == ~Top(r)
       IN  {a \o b : a \in Arrangements(SelectSeq(rows, Top)),
                     b \in OrderByTimestampDesc(SelectSeq(rows, Rest))}

\* The query without its LIMIT.
LimitOff(rows, n) == rows

\* LIMIT n; a negative n is no limit in SQLite.
Limit(rows, n) ==
  IF n < 0 \/ n >= Len(rows) THEN rows ELSE SubSeq(rows, 1, n)

\* get_logs: service = "" and level = "" stand for None (if service: ...).
LogsSince(rows, service, level, since_minutes, limit, t) ==
  LET cutoff == IsoFormat(t - Minutes(since_minutes))
      Hit(r) == /\ TextLess(cutoff, r.timestamp)
                /\ service # "" => r.service = service
                /\ level # "" => r.level = level
  IN  {Limit(p, limit) : p \in OrderByTimestampDesc(SelectSeq(rows, Hit))}

GetLogs(service, level, since_minutes, limit) ==
  /\ \E found \in LogsSince(logs, service, level, since_minutes, limit, now) :
       ret' = Returned("get_logs", <<service, level, since_minutes, limit>>,
                       "none", found)
  /\ UNCHANGED <<now, uuids, platforms, metrics, spans, logs,
                 pending, ending, wire>>

\* ------------------------------------------------------------- dashboard
DashboardWindow == 60
DashboardErrors == 10

\* A missing metric reported as zero.
FindMetricZero(found, name) ==
  LET hits == {i \in DOMAIN found : found[i].name = name}
  IN  IF hits = {} THEN Num(0)
      ELSE found[CHOOSE i \in hits : \A j \in hits : i <= j].value

\* _find_metric: the value of the first row of the list with that name, None
\* when there is none.  None and a NULL value read back are the same None.
FindMetric(found, name) ==
  LET hits == {i \in DOMAIN found : found[i].name = name}
  IN  IF hits = {} THEN SqlNull
      ELSE found[CHOOSE i \in hits : \A j \in hits : i <= j].value

DashboardMetrics(found, service) ==
  [requests_per_minute |-> FindMetric(found, ServiceMetric(service, <<"requests_per_minute">>)),
   error_rate |-> FindMetric(found, ServiceMetric(service, <<"error_rate">>)),
   p50_latency |-> FindMetric(found, ServiceMetric(service, <<"p50_latency", "_ms">>)),
   p95_latency |-> FindMetric(found, ServiceMetric(service, <<"p95_latency", "_ms">>)),
   p99_latency |-> FindMetric(found, ServiceMetric(service, <<"p99_latency", "_ms">>))]

ServiceDashboard(service) ==
  /\ LET found == MetricsSince(metrics, <<service>>, DashboardWindow, now)
     IN  \E errors \in LogsSince(logs, service, "error", DashboardWindow,
                                 DashboardErrors, now) :
           ret' = Returned("service_dashboard", <<service>>, "none",
                    [service |-> service,
                     metrics |-> DashboardMetrics(found, service),
                     recent_errors |-> errors])
  /\ UNCHANGED <<now, uuids, platforms, metrics, spans, logs,
                 pending, ending, wire>>

\* ------------------------------------------------------------- alerts
AlertWindow == 5
ErrorRateThreshold == 5
P99Threshold == 50000

IsErrorRate(r) == Contains(r.name, <<"error_rate">>)
IsP99(r) == Contains(r.name, <<"p99_latency">>)

ErrorRateViolation(r) ==
  IF IsErrorRate(r) /\ Gt(r.value, ErrorRateThreshold)
    THEN <<[metric |-> r.name, value |-> r.value,
            threshold |-> ErrorRateThreshold, severity |-> "high"]>>
    ELSE <<>>

P99Violation(r) ==
  IF IsP99(r) /\ Gt(r.value, P99Threshold)
    THEN <<[metric |-> r.name, value |-> r.value,
            threshold |-> P99Threshold, severity |-> "medium"]>>
    ELSE <<>>

\* The loop of alert_rules over the rows get_metrics returned.
RECURSIVE Violations(_)
Violations(found) ==
  IF found = <<>> THEN <<>>
  ELSE ErrorRateViolation(Head(found)) \o P99Violation(Head(found)) \o
       Violations(Tail(found))

\* metric['value'] > 0.05 is evaluated only when the name test passed
\* (short-circuit and); on a NULL value it raises TypeError.
AlertRaises(found) ==
  \E i \in DOMAIN found :
    (IsErrorRate(found[i]) \/ IsP99(found[i])) /\ GtRaises(found[i].value)

AlertRules ==
  /\ LET found == MetricsSince(metrics, <<>>, AlertWindow, now)
     IN  ret' = IF AlertRaises(found)
                  THEN Returned("alert_rules", <<>>, "TypeError", <<>>)
                  ELSE Returned("alert_rules", <<>>, "none", Violations(found))
  /\ UNCHANGED <<now, uuids, platforms, metrics, spans, logs,
                 pending, ending, wire>>

\* ------------------------------------------------------------- exporter
\* What requests.post comes to: a response with a status code, or an
\* exception (no connection, timeout, ...).
Status(code) == [k |-> "status", code |-> code, what |-> ""]
Raises(what) == [k |-> "raise", code |-> 0, what |-> what]

DefaultEndpoint == "http://localhost:4318"

\* url = endpoint or f"{self.endpoint}/v1/...": "" stands for None, which
\* or  treats like the empty string.
Url(endpoint, path) ==
  IF endpoint = "" THEN <<DefaultEndpoint, path>> ELSE <<endpoint>>

\* return response.status_code == 200, or False from the except clause.
Delivered(reply) == reply.k = "status" /\ reply.code = 200

\* One export_* call: the payload is built, requests.post is called once
\* inside try, and the call returns True or False; reply is what the post
\* came to.  items = <<>> stands for None and for [] (metrics or []).
Export(op, path, section, endpoint, items, reply) ==
  /\ Len(wire) < MaxPosts
  /\ wire' = Append(wire,
       [url |-> Url(endpoint, path), section |-> section, items |-> items,
        reply |-> reply])
  /\ ret' = Returned(op, <<endpoint, items>>, "none", Delivered(reply))
  /\ UNCHANGED <<now, uuids, platforms, metrics, spans, logs,
                 pending, ending>>

ExportMetrics(endpoint, items, reply) ==
  Export("export_metrics", "/v1/metrics", "resourceMetrics", endpoint, items, reply)

ExportTraces(endpoint, items, reply) ==
  Export("export_traces", "/v1/traces", "resourceSpans", endpoint, items, reply)

ExportLogs(endpoint, items, reply) ==
  Export("export_logs", "/v1/logs", "resourceLogs", endpoint, items, reply)
\* ------------------------------------------------------------- command line
\* since_minutes and limit as get_logs defaults them.
DefaultSince == 60
DefaultLimit == 100

\* The sample rows written only into an empty table.
PopulateIfEmpty(rows, h, base, t) ==
  IF rows = <<>> THEN SampleRows(h, base, t) ELSE rows

\* Table metrics after _populate_sample_data ran on rows: fifteen
\* record_metric calls, each an INSERT of a new row.
Populate(rows, h, base, t) == rows \o SampleRows(h, base, t)

\* main() up to the dispatch: ObservabilityPlatform() is constructed for
\* every command (and for none), then the command's query runs on the store
\* so populated and its result is printed; outs are the results the query
\* can give, h the hash of this process.
MainWith(command, arg, h, outs) ==
  /\ platforms <= MaxConstructs
  /\ metrics' = Populate(metrics, h, uuids, now)
  /\ \E out \in outs : ret' = Returned("main", <<command, arg>>, "none", out)
  /\ uuids' = uuids + 3 * Len(SERVICES)
  /\ platforms' = platforms + 1
  /\ UNCHANGED <<now, spans, logs, pending, ending, wire>>

MainDashboard(service) ==
  \E h \in HashFns :
    LET rows == Populate(metrics, h, uuids, now)
        found == MetricsSince(rows, <<service>>, DashboardWindow, now)
    IN  MainWith("dashboard", service, h,
          {[service |-> service,
            metrics |-> DashboardMetrics(found, service),
            recent_errors |-> errors] :
             errors \in LogsSince(logs, service, "error", DashboardWindow,
                                  DashboardErrors, now)})

MainTrace(trace_id) ==
  \E h \in HashFns :
    MainWith("trace", trace_id, h,
      {[trace_id |-> trace_id, spans |-> found,
        waterfall |-> Waterfall(found, now)] :
         found \in SpansOfTrace(spans, trace_id)})

MainLogs(service, level) ==
  \E h \in HashFns :
    MainWith("logs", <<service, level>>, h,
      LogsSince(logs, service, level, DefaultSince, DefaultLimit, now))

\* A command line with no command: the platform is constructed and nothing
\* is printed.
MainNone == \E h \in HashFns : MainWith("", "", h, {<<>>})

\* ------------------------------------------------------------- clock
Tick(d) ==
  /\ now + d <= MaxNow
  /\ now' = now + d
  /\ UNCHANGED <<uuids, platforms, metrics, spans, logs,
                 pending, ending, ret, wire>>

\* ------------------------------------------------------------- inputs
\* The clock moves forward to one of a few instants after Epoch.
TickTo(offsets) ==
  \E o \in offsets : Epoch + o > now /\ Tick(Epoch + o - now)

SpanOffsets == {41}
MetricOffsets == {60, 61, 120}
StoreOffsets == {60}
DashOffsets == {5, 120}
AlertOffsets == {5, 10}

SpanServices == {"gateway"}
SpanOperations == {"handle"}
SpanEnds == {<<"ok", {}>>, <<"error", {<<"k", "v">>}>>}
\* trace_id omitted (a new trace, no parent) or given (a child span).
SpanStarts == {<<NULL, NULL>>} \cup {<<t, p>> : t \in ForeignIds, p \in ForeignIds}

GatewayErrorRate == ServiceMetric("gateway", <<"error_rate">>)
GatewayP99 == ServiceMetric("gateway", <<"p99_latency", "_ms">>)
XHits == ServiceMetric("x", <<"hits">>)
XBoth == ServiceMetric("x", <<"error_rate", "_", "p99_latency">>)

MetricInputs ==
  {<<GatewayErrorRate, Num(5)>>, <<XHits, NaN>>, <<XHits, PosInf>>}
MetricWindows == {0, 30, 60}
MetricFilters == {<<>>, <<"x">>}

DashInputs ==
  {<<GatewayErrorRate, Num(5)>>, <<GatewayErrorRate, NaN>>,
   <<XBoth, Num(50001)>>}
AlertInputs ==
  {<<GatewayErrorRate, Num(5)>>, <<GatewayErrorRate, Num(6)>>,
   <<GatewayErrorRate, NaN>>, <<GatewayP99, Num(50000)>>,
   <<GatewayP99, Num(50001)>>, <<XBoth, Num(50001)>>}
DashServices == {"gateway", "x"}
DashLogs == {<<"gateway", "error">>, <<"gateway", "info">>}

\* ------------------------------------------------------------- specifications
NextSpans ==
  \/ \E service \in SpanServices, operation \in SpanOperations,
        a \in SpanStarts :
       StartSpanBegin(service, operation, a[1], a[2])
  \/ \E s \in pending : StartSpanInsert(s)
  \/ \E span_id \in SpanIds \cup ForeignIds, e \in SpanEnds :
       EndSpan(span_id, e[1], e[2])
  \/ \E trace_id \in TraceIds \cup ForeignIds : GetTrace(trace_id)
  \/ TickTo(SpanOffsets)

SpecSpans == Init /\ [][NextSpans]_vars

NextMetrics ==
  \/ \E m \in MetricInputs : RecordMetric(m[1], m[2], {}, "gauge")
  \/ Increment(XHits, {})
  \/ \E name \in MetricFilters, since_minutes \in MetricWindows :
       GetMetrics(name, since_minutes)
  \/ TickTo(MetricOffsets)

SpecMetrics == Init /\ [][NextMetrics]_vars

NextStore ==
  \/ RecordMetric(XHits, Num(5), {}, "histogram")
  \/ Increment(XHits, {})
  \/ Len(logs) < MaxLogs /\ Log("gateway", "error", "m", NULL, {})
  \/ Construct
  \/ TickTo(StoreOffsets)

SpecStore == Init /\ [][NextStore]_vars

NextDash ==
  \/ \E m \in DashInputs : RecordMetric(m[1], m[2], {}, "gauge")
  \/ \E l \in DashLogs : Len(logs) < MaxLogs /\ Log(l[1], l[2], "m", NULL, {})
  \/ \E service \in DashServices : ServiceDashboard(service)
  \/ TickTo(DashOffsets)

SpecDash == Init /\ [][NextDash]_vars

NextAlerts ==
  \/ \E m \in AlertInputs : RecordMetric(m[1], m[2], {}, "gauge")
  \/ AlertRules
  \/ TickTo(AlertOffsets)

SpecAlerts == Init /\ [][NextAlerts]_vars

\* Two spans of one trace, one of them ended, read twice in a row.
TraceOffsets == {41, 82}
TraceStarts == {<<t, NULL>> : t \in ForeignIds}

NextTrace ==
  \/ \E a \in TraceStarts : StartSpanBegin("gateway", "handle", a[1], a[2])
  \/ \E s \in pending : StartSpanInsert(s)
  \/ \E span_id \in SpanIds : EndSpan(span_id, "ok", {})
  \/ \E trace_id \in ForeignIds : GetTrace(trace_id)
  \/ \E trace_id \in ForeignIds : GetTraceAgain(trace_id)
  \/ TickTo(TraceOffsets)

SpecTrace == Init /\ [][NextTrace]_vars
\* Name filters that differ from a stored name in letter case only, or hold
\* a LIKE wildcard character.
FilterOffsets == {30, 60}
FilterNames == {<<"x">>, <<"X">>, <<"GATEWAY">>, <<"_">>, <<"%">>}
FilterWindows == {1, 60}

NextFilter ==
  \/ RecordMetric(XHits, Num(5), {}, "gauge")
  \/ \E name \in FilterNames, since_minutes \in FilterWindows :
       GetMetrics(name, since_minutes)
  \/ TickTo(FilterOffsets)

SpecFilter == Init /\ [][NextFilter]_vars
\* A run of logs, one per clock value from Epoch on (the first of any kind,
\* the later ones errors of gateway, two logs possibly at Epoch), read at
\* any point, also after an hour.
LogRun == 11
LogOffsets == {121}
LogKinds == {<<"gateway", "error">>, <<"gateway", "info">>, <<"x", "error">>}
LogFilters == {<<"", "">>, <<"gateway", "error">>, <<"x", "">>}
LogLimits == {0, 2}
LogsAt(t) == {i \in DOMAIN logs : logs[i].timestamp = IsoFormat(t)}

NextLogs ==
  \/ \E l \in LogKinds :
       /\ logs # <<>> => l = <<"gateway", "error">>
       /\ Cardinality(LogsAt(now)) < (IF now = Epoch THEN 2 ELSE 1)
       /\ Log(l[1], l[2], "m", NULL, {})
  \/ \E f \in LogFilters, limit \in LogLimits :
       GetLogs(f[1], f[2], DashboardWindow, limit)
  \/ ServiceDashboard("gateway")
  \/ LogsAt(now) # {} /\ now < Epoch + LogRun /\ Tick(1)
  \/ TickTo(LogOffsets)

SpecLogs == Init /\ [][NextLogs]_vars
\* Callers a and b ending the first span of a trace while further spans
\* are started and the trace is read.
RaceOffsets == {41}
RaceEnds == {<<"a", "ok", {<<"by", "a">>}>>, <<"b", "error", {<<"by", "b">>}>>}

NextRace ==
  \/ \E trace_id \in ForeignIds :
       StartSpanBegin("gateway", "handle", trace_id, NULL)
  \/ \E s \in pending : StartSpanInsert(s)
  \/ \E e \in RaceEnds :
       spans # <<>> /\ EndSpanBegin(e[1], spans[1].span_id, e[2], e[3])
  \/ \E e \in ending : EndSpanUpdate(e)
  \/ \E trace_id \in ForeignIds : GetTrace(trace_id)
  \/ TickTo(RaceOffsets)

SpecRace == Init /\ [][NextRace]_vars
\* Spans started one call at a time, into a new trace, a made-up trace or a
\* stored one, with span ids that are new or, rarely, repeated.
IdOffsets == {41}
IdParents == {NULL} \cup ForeignIds

NextIds ==
  \/ \E trace_id \in {NULL} \cup ForeignIds \cup TraceIds,
        parent_span_id \in IdParents :
       StartSpan("gateway", "handle", trace_id, parent_span_id)
  \/ \E trace_id \in {NULL} \cup ForeignIds, span_id \in SpanIds :
       StartSpanRepeat("gateway", "handle", trace_id, NULL, span_id)
  \/ \E span_id \in SpanIds : EndSpan(span_id, "ok", {})
  \/ TickTo(IdOffsets)

SpecIds == Init /\ [][NextIds]_vars
\* Exports to the default or another endpoint, answered with a success, a
\* 2xx other than 200, a client or server error, or not answered.
ExportEndpoints == {"", "http://collector"}
ExportItems == {<<>>, <<"item">>}
ExportReplies ==
  {Status(200), Status(202), Status(404), Status(500),
   Raises("ConnectionError")}

NextExport ==
  \/ \E endpoint \in ExportEndpoints, items \in ExportItems,
        reply \in ExportReplies : ExportMetrics(endpoint, items, reply)
  \/ \E endpoint \in ExportEndpoints, items \in ExportItems,
        reply \in ExportReplies : ExportTraces(endpoint, items, reply)
  \/ \E endpoint \in ExportEndpoints, items \in ExportItems,
        reply \in ExportReplies : ExportLogs(endpoint, items, reply)

SpecExport == Init /\ [][NextExport]_vars
\* Spans of one trace started and ended, by stored and by unknown span_id,
\* on a store that also holds metrics and logs.
FrameOffsets == {41}

NextFrame ==
  \/ \E trace_id \in ForeignIds : StartSpan("gateway", "handle", trace_id, NULL)
  \/ \E span_id \in SpanIds \cup ForeignIds, e \in SpanEnds :
       EndSpan(span_id, e[1], e[2])
  \/ Len(logs) < MaxLogs /\ Log("gateway", "error", "m", NULL, {})
  \/ TickTo(FrameOffsets)

SpecFrame == Init /\ [][NextFrame]_vars
\* Commands run on a store that callers write a metric, a span and a log
\* to.
MainOffsets == {41}

NextMain ==
  \/ Construct
  \/ MainDashboard("gateway")
  \/ \E trace_id \in ForeignIds : MainTrace(trace_id)
  \/ MainLogs("", "")
  \/ MainNone
  \/ CallerMetrics = 0 /\ RecordMetric(XHits, Num(5), {}, "gauge")
  \/ \E trace_id \in ForeignIds :
       spans = <<>> /\ StartSpan("gateway", "handle", trace_id, NULL)
  \/ logs = <<>> /\ Log("gateway", "error", "m", NULL, {})
  \/ TickTo(MainOffsets)

SpecMain == Init /\ [][NextMain]_vars
\* ------------------------------------------------------------- claims: spans
StartOf(r) == FromIsoFormat(r.start_ts)
EndOf(r) == FromIsoFormat(r.end_ts)
Ended(r) == r.end_ts # <<>>

\* A step in which end_span returned (Tick moves the clock and
\* StartSpanBegin grows pending, EndSpanBegin grows ending; every other step
\* sets ret to its own call).
EndSpanStep ==
  ret'.op = "end_span" /\ now' = now /\ pending' = pending /\ ending' = ending

\* Every span a step adds is un-ended: end NULL, status ok.
NewSpansOpen ==
  \A i \in DOMAIN spans' :
    i \notin DOMAIN spans => spans'[i].end_ts = <<>> /\ spans'[i].status = "ok"

\* C1 (as claimed): end_span on a span_id that no start_span created fails
\* with NotFound and leaves every stored span unchanged.
C1_UnknownEndSpanNotFound ==
  [][(EndSpanStep /\ ret'.arg[1] \notin SpanIds)
       => (ret'.err = "NotFound" /\ spans' = spans)]_vars

\* C2 (as claimed): a span is created un-ended, and once its end is set no
\* later step, a second end_span on it included, changes its end, status or
\* tags.
C2_EndedSpanFrozen ==
  [][/\ NewSpansOpen
     /\ \A i \in DOMAIN spans :
          Ended(spans[i]) =>
            /\ spans'[i].end_ts = spans[i].end_ts
            /\ spans'[i].status = spans[i].status
            /\ spans'[i].tags = spans[i].tags]_vars

\* C2 (amended): a span is created un-ended; a stored span changes only in
\* an end_span on its own span_id, which sets end, status and tags to that
\* call's (so a second end_span overwrites the first); an end once set is
\* never NULL again.
C2_OnlyOwnEndSpanChanges ==
  [][/\ NewSpansOpen
     /\ \A i \in DOMAIN spans :
          /\ i \in DOMAIN spans'
          /\ Ended(spans[i]) => Ended(spans'[i])
          /\ spans'[i] # spans[i] =>
               /\ EndSpanStep
               /\ ret'.arg[1] = spans[i].span_id
               /\ spans'[i] = [spans[i] EXCEPT !.end_ts = IsoFormat(now),
                                               !.status = ret'.arg[2],
                                               !.tags = ret'.arg[3]]]_vars

\* C2 witness: an end_span has just ended one span while another span,
\* ended earlier, is stored.
C2_Witness ==
  /\ ret.op = "end_span"
  /\ \E i, j \in DOMAIN spans :
       /\ spans[j].span_id = ret.arg[1]
       /\ Ended(spans[i]) /\ Ended(spans[j])
       /\ EndOf(spans[i]) < EndOf(spans[j])
       /\ EndOf(spans[j]) = ret.at

\* C3: get_trace(t) returns exactly the stored spans of trace t, each once,
\* in ascending order of start time, and raises nothing (an unknown t gives
\* the empty list).
C3_GetTraceExactAscending ==
  ret.op = "get_trace" =>
    LET t == ret.arg[1]
        out == ret.out.spans
        stored == {spans[i] : i \in {k \in DOMAIN spans : spans[k].trace_id = t}}
    IN  /\ ret.err = "none"
        /\ {out[i] : i \in DOMAIN out} = stored
        /\ Len(out) = Cardinality(stored)
        /\ \A i, j \in DOMAIN out : i < j => StartOf(out[i]) <= StartOf(out[j])

\* C3 witness: get_trace returned two spans of a trace that were inserted
\* in the opposite order of their start times.
C3_Witness ==
  /\ ret.op = "get_trace"
  /\ Len(ret.out.spans) >= 2
  /\ \E i, j \in DOMAIN spans :
       /\ i < j
       /\ spans[i].trace_id = ret.arg[1] /\ spans[j].trace_id = ret.arg[1]
       /\ StartOf(spans[j]) < StartOf(spans[i])

\* C10: a stored span has end NULL until an end_span on its span_id, and
\* end set after it; every ended span has end >= start; get_trace of a
\* trace with one stored span returns exactly that span, and every
\* waterfall entry has duration_ms >= 0.
C10_SingleSpanLifecycle ==
  /\ [](/\ \A i \in DOMAIN spans :
             Ended(spans[i]) => EndOf(spans[i]) >= StartOf(spans[i])
        /\ ret.op = "get_trace" =>
             /\ \A k \in DOMAIN ret.out.waterfall :
                  ret.out.waterfall[k].duration_ms >= 0
             /\ \A i \in DOMAIN spans :
                  (/\ spans[i].trace_id = ret.arg[1]
                   /\ \A j \in DOMAIN spans :
                        spans[j].trace_id = ret.arg[1] => j = i)
                    => ret.out.spans = <<spans[i]>>)
  /\ [][/\ NewSpansOpen
        /\ \A i \in DOMAIN spans :
             /\ (~Ended(spans[i]) /\ Ended(spans'[i]))
                  => (EndSpanStep /\ ret'.arg[1] = spans[i].span_id)
             /\ (EndSpanStep /\ ret'.arg[1] = spans[i].span_id)
                  => (Ended(spans'[i]) /\ EndOf(spans'[i]) = now)]_vars

\* C10 witness: get_trace returned the single span of a trace, ended, with
\* a positive duration.
C10_Witness ==
  /\ ret.op = "get_trace"
  /\ Len(ret.out.spans) = 1
  /\ Ended(ret.out.spans[1])
  /\ ret.out.waterfall[1].duration_ms > 0

\* ------------------------------------------------------------- claims: metrics
StampOf(r) == FromIsoFormat(r.timestamp)
Returns(out, r) == \E k \in DOMAIN out : out[k] = r

\* C4 (as claimed): get_metrics(since_minutes = w) with no name filter
\* returns M iff now - M.timestamp <= w, now being the clock at the call.
C4_WindowInclusive ==
  (ret.op = "get_metrics" /\ ret.arg[1] = <<>>) =>
    \A i \in DOMAIN metrics :
      Returns(ret.out, metrics[i])
        <=> ret.at - StampOf(metrics[i]) <= Minutes(ret.arg[2])

\* C4 (amended): get_metrics(since_minutes = w) with no name filter returns
\* M iff now - M.timestamp < w, now being the clock at the call: a metric
\* exactly at the cutoff is left out, on every call.
C4_WindowStrict ==
  (ret.op = "get_metrics" /\ ret.arg[1] = <<>>) =>
    \A i \in DOMAIN metrics :
      Returns(ret.out, metrics[i])
        <=> ret.at - StampOf(metrics[i]) < Minutes(ret.arg[2])

\* C4 witness: a call after the clock moved that returned one metric and
\* left out another lying exactly at the cutoff.
C4_Witness ==
  /\ ret.op = "get_metrics" /\ ret.arg[1] = <<>> /\ ret.arg[2] > 0
  /\ ret.at > Epoch
  /\ \E i, j \in DOMAIN metrics :
       /\ ret.at - StampOf(metrics[i]) = Minutes(ret.arg[2])
       /\ ~Returns(ret.out, metrics[i])
       /\ Returns(ret.out, metrics[j])

\* A step in which record_metric returned.
RecordMetricStep == ret'.op = "record_metric" /\ now' = now

\* C8 (as claimed): record_metric with NaN, +inf or -inf fails with
\* InvalidValue and adds no row.
C8_NonFiniteRejected ==
  [][(RecordMetricStep /\ ret'.arg[2].k \in {"nan", "inf"})
       => (ret'.err = "InvalidValue" /\ metrics' = metrics)]_vars

\* C9: metrics and logs only grow, by one row with an unused id per
\* record_metric, increment or log call, and stored rows never change; the
\* row an increment adds has value 1.0 and kind counter.
MetricIds == {metrics[i].id : i \in DOMAIN metrics}
LogIds == {logs[i].id : i \in DOMAIN logs}

C9_AppendOnly ==
  [][/\ \A i \in DOMAIN metrics : i \in DOMAIN metrics' /\ metrics'[i] = metrics[i]
     /\ \A i \in DOMAIN logs : i \in DOMAIN logs' /\ logs'[i] = logs[i]
     /\ (ret'.op \in {"record_metric", "increment"} /\ now' = now) =>
          /\ Len(metrics') = Len(metrics) + 1
          /\ metrics'[Len(metrics')].id \notin MetricIds
          /\ metrics'[Len(metrics')].id = ret'.out
          /\ metrics'[Len(metrics')].name = ret'.arg[1]
          /\ logs' = logs
     /\ (ret'.op = "increment" /\ now' = now) =>
          /\ metrics'[Len(metrics')].value = Num(100)
          /\ metrics'[Len(metrics')].type = "counter"
     /\ (ret'.op = "log" /\ now' = now) =>
          /\ Len(logs') = Len(logs) + 1
          /\ logs'[Len(logs')].id \notin LogIds
          /\ metrics' = metrics]_vars

\* C9 witness: two increments of one name left two counter rows of value
\* 1.0 with the same timestamp.
C9_Witness ==
  /\ ret.op = "increment"
  /\ \E i, j \in DOMAIN metrics :
       /\ i < j
       /\ metrics[i].name = XHits /\ metrics[j].name = XHits
       /\ metrics[i].type = "counter" /\ metrics[j].type = "counter"
       /\ metrics[i].value = Num(100) /\ metrics[j].value = Num(100)
       /\ metrics[i].timestamp = metrics[j].timestamp
       /\ metrics[i].id # metrics[j].id

\* ------------------------------------------------------------- claims: dashboard
DashboardFields ==
  {"requests_per_minute", "error_rate", "p50_latency", "p95_latency", "p99_latency"}

\* The metric name service_dashboard looks up for a field.
FieldName(service, f) ==
  IF f \in {"requests_per_minute", "error_rate"}
    THEN ServiceMetric(service, <<f>>)
    ELSE ServiceMetric(service, <<f, "_ms">>)

\* The rows named for a field of the service within the 60 minutes before
\* the call.
FieldRows(service, f) ==
  {i \in DOMAIN metrics :
     /\ metrics[i].name = FieldName(service, f)
     /\ ret.at - StampOf(metrics[i]) < Minutes(DashboardWindow)}

\* C5 (as claimed): each dashboard field is the value of the most recent
\* metric (greatest timestamp) of its name in the last 60 minutes.
C5_DashboardLatest ==
  ret.op = "service_dashboard" =>
    \A f \in DashboardFields :
      LET rows == FieldRows(ret.arg[1], f)
      IN  rows # {} =>
            \E i \in rows :
              /\ \A j \in rows : StampOf(metrics[j]) <= StampOf(metrics[i])
              /\ ret.out.metrics[f] = metrics[i].value

\* C6 (as claimed): on a store where no caller recorded a metric or a log,
\* service_dashboard("gateway") has all five fields null and no errors.
C6_FreshGatewayAllNull ==
  (/\ ret.op = "service_dashboard" /\ ret.arg[1] = "gateway"
   /\ CallerMetrics = 0 /\ logs = <<>>) =>
    /\ \A f \in DashboardFields : ret.out.metrics[f] = SqlNull
    /\ ret.out.recent_errors = <<>>

\* C6 (amended): a dashboard field is null, never zero, whenever no metric
\* of the name looked up for it lies in the last 60 minutes, and
\* recent_errors is empty whenever no error log of the service does.
C6_AbsentIsNull ==
  ret.op = "service_dashboard" =>
    /\ \A f \in DashboardFields :
         FieldRows(ret.arg[1], f) = {} => ret.out.metrics[f] = SqlNull
    /\ (\A i \in DOMAIN logs :
          ~(/\ logs[i].service = ret.arg[1] /\ logs[i].level = "error"
            /\ ret.at - StampOf(logs[i]) < Minutes(DashboardWindow)))
         => ret.out.recent_errors = <<>>

\* C6 witness: service_dashboard("gateway") returned all five fields null
\* and no errors, the rows written at construction being older than 60
\* minutes.
C6_Witness ==
  /\ ret.op = "service_dashboard" /\ ret.arg[1] = "gateway"
  /\ \A f \in DashboardFields : ret.out.metrics[f] = SqlNull
  /\ ret.out.recent_errors = <<>>
  /\ \E i \in DOMAIN metrics : metrics[i].name = GatewayErrorRate

\* C7 (as claimed): alert_rules returns exactly, for every row of the last
\* 5 minutes, a high violation iff the name contains error_rate and
\* value > 0.05, and a medium violation iff the name contains p99_latency
\* and value > 500.
Exceeds(v, n) == (v.k = "num" /\ v.n > n) \/ (v.k = "inf" /\ v.n > 0)
HighViolation(r) ==
  [metric |-> r.name, value |-> r.value, threshold |-> ErrorRateThreshold,
   severity |-> "high"]
MediumViolation(r) ==
  [metric |-> r.name, value |-> r.value, threshold |-> P99Threshold,
   severity |-> "medium"]
AlertRows ==
  {i \in DOMAIN metrics : ret.at - StampOf(metrics[i]) < Minutes(AlertWindow)}

C7_AlertRulesExact ==
  ret.op = "alert_rules" =>
    /\ ret.err = "none"
    /\ \A i \in AlertRows :
         /\ Returns(ret.out, HighViolation(metrics[i]))
              <=> (Contains(metrics[i].name, <<"error_rate">>)
                   /\ Exceeds(metrics[i].value, ErrorRateThreshold))
         /\ Returns(ret.out, MediumViolation(metrics[i]))
              <=> (Contains(metrics[i].name, <<"p99_latency">>)
                   /\ Exceeds(metrics[i].value, P99Threshold))
    /\ \A k \in DOMAIN ret.out :
         \E i \in AlertRows :
           ret.out[k] \in {HighViolation(metrics[i]), MediumViolation(metrics[i])}

\* ------------------------------------------------------------- claims: two reads
\* A step in which get_trace returned.
GetTraceStep ==
  ret'.op = "get_trace" /\ now' = now /\ pending' = pending /\ ending' = ending

\* A get_trace step whose caller's previous returned call was a get_trace
\* of the same trace: no write lies between the two (every write sets ret).
SecondGetTraceStep ==
  GetTraceStep /\ ret.op = "get_trace" /\ ret'.arg = ret.arg

\* The waterfall duration a get_trace result reports for span s.
DurationOf(out, s) ==
  LET k == CHOOSE k \in DOMAIN out.spans : out.spans[k] = s
  IN  out.waterfall[k].duration_ms

\* C11 (as claimed): in two get_trace calls in a row an ended span reports
\* end - start both times; an in-flight span reports now - start of each
\* call, and strictly more in the second call than in the first.
C11_InFlightStrictlyGrows ==
  [][SecondGetTraceStep =>
       \A k \in DOMAIN ret.out.spans :
         LET s == ret.out.spans[k]
             d1 == DurationOf(ret.out, s)
             d2 == DurationOf(ret'.out, s)
         IN  /\ \E j \in DOMAIN ret'.out.spans : ret'.out.spans[j] = s
             /\ Ended(s) => d1 = Millis(EndOf(s) - StartOf(s)) /\ d2 = d1
             /\ ~Ended(s) =>
                  /\ d1 = Millis(ret.at - StartOf(s))
                  /\ d2 = Millis(now - StartOf(s))
                  /\ d2 > d1]_vars

\* C11 (amended): as above, but the in-flight duration of the second call
\* exceeds that of the first by exactly the time the clock advanced between
\* the two reads, so it is never smaller, and equal when the clock read the
\* same.
C11_InFlightGrowsWithClock ==
  [][SecondGetTraceStep =>
       /\ Len(ret'.out.spans) = Len(ret.out.spans)
       /\ \A k \in DOMAIN ret.out.spans :
            LET s == ret.out.spans[k]
                d1 == DurationOf(ret.out, s)
                d2 == DurationOf(ret'.out, s)
            IN  /\ \E j \in DOMAIN ret'.out.spans : ret'.out.spans[j] = s
                /\ Ended(s) => d1 = Millis(EndOf(s) - StartOf(s)) /\ d2 = d1
                /\ ~Ended(s) =>
                     /\ d1 = Millis(ret.at - StartOf(s))
                     /\ d2 = Millis(now - StartOf(s))
                     /\ d2 = d1 + Millis(now - ret.at)
                     /\ d2 >= d1]_vars

\* C11 witness: the second of two reads of a trace holding an ended and an
\* in-flight span, the clock having advanced between them: the ended
\* span's duration is the same and positive, the in-flight span's greater.
C11_Witness ==
  /\ ret.op = "get_trace"
  /\ "before" \in DOMAIN ret
  /\ ret.at > ret.before.at
  /\ \E i, j \in DOMAIN ret.out.spans :
       LET e == ret.out.spans[i]
           f == ret.out.spans[j]
       IN  /\ Ended(e) /\ ~Ended(f)
           /\ \E k \in DOMAIN ret.before.out.spans : ret.before.out.spans[k] = e
           /\ \E k \in DOMAIN ret.before.out.spans : ret.before.out.spans[k] = f
           /\ DurationOf(ret.out, e) = DurationOf(ret.before.out, e)
           /\ DurationOf(ret.out, e) > 0
           /\ DurationOf(ret.out, f) > DurationOf(ret.before.out, f)
\* ------------------------------------------------------------- claims: name filter
\* C12 (as claimed): get_metrics with a name returns exactly the in-window
\* metrics whose name contains it as a literal, case-sensitive substring.
C12_LiteralSubstring ==
  (ret.op = "get_metrics" /\ ret.arg[1] # <<>>) =>
    \A i \in DOMAIN metrics :
      Returns(ret.out, metrics[i])
        <=> /\ ret.at - StampOf(metrics[i]) < Minutes(ret.arg[2])
            /\ Contains(metrics[i].name, ret.arg[1])
\* ------------------------------------------------------------- claims: logs
\* The stored logs in the window of since_minutes before the last call that
\* match the filters given ("" is a filter not given).
MatchingLogs(service, level, since_minutes) ==
  {i \in DOMAIN logs :
     /\ ret.at - StampOf(logs[i]) < Minutes(since_minutes)
     /\ service # "" => logs[i].service = service
     /\ level # "" => logs[i].level = level}

\* out is the min(limit, n) most recent of the n rows, newest first.
MostRecent(out, rows, limit) ==
  /\ Len(out) = IF limit < Cardinality(rows) THEN limit ELSE Cardinality(rows)
  /\ \A k \in DOMAIN out : \E i \in rows : out[k] = logs[i]
  /\ \A j, k \in DOMAIN out :
       /\ j # k => out[j] # out[k]
       /\ j < k => StampOf(out[j]) >= StampOf(out[k])
  /\ \A i \in rows :
       ~Returns(out, logs[i]) =>
         \A k \in DOMAIN out : StampOf(out[k]) >= StampOf(logs[i])

\* C13: get_logs returns the min(limit, n) most recent of the n logs in the
\* window that match the filters given, newest first; recent_errors of
\* service_dashboard(service) is the 10 most recent error logs of the
\* service in the last 60 minutes and holds no other service or level.
C13_GetLogsMostRecent ==
  /\ ret.op = "get_logs" =>
       MostRecent(ret.out, MatchingLogs(ret.arg[1], ret.arg[2], ret.arg[3]),
                  ret.arg[4])
  /\ ret.op = "service_dashboard" =>
       /\ MostRecent(ret.out.recent_errors,
                     MatchingLogs(ret.arg[1], "error", DashboardWindow),
                     DashboardErrors)
       /\ \A k \in DOMAIN ret.out.recent_errors :
            /\ ret.out.recent_errors[k].service = ret.arg[1]
            /\ ret.out.recent_errors[k].level = "error"

\* C13 witness: service_dashboard("gateway") returned 10 errors, newest
\* first, leaving out an older error of gateway that is in the window and
\* a log of another level or service that is in the window.
C13_Witness ==
  /\ ret.op = "service_dashboard" /\ ret.arg[1] = "gateway"
  /\ Len(ret.out.recent_errors) = DashboardErrors
  /\ \E i \in MatchingLogs("gateway", "error", DashboardWindow) :
       ~Returns(ret.out.recent_errors, logs[i])
  /\ \E i \in MatchingLogs("", "", DashboardWindow) :
       logs[i].service # "gateway" \/ logs[i].level # "error"
  /\ StampOf(ret.out.recent_errors[1]) > StampOf(ret.out.recent_errors[DashboardErrors])
\* ------------------------------------------------------------- claims: racing callers
\* A span as start_span writes it.
Unended(s) == s.end_ts = <<>> /\ s.status = "ok" /\ s.tags = {}

\* A span whose status and tags are those of one caller's end_span.
EndedByOne(s) ==
  Ended(s) /\ \E e \in RaceEnds : s.status = e[2] /\ s.tags = e[3]

\* C14: under every interleaving of start_span, the two steps of end_span
\* and get_trace, a stored span and a span get_trace returns is un-ended
\* (end NULL, status ok, tags {}) or has end, status and tags of one
\* end_span call; each UPDATE applied sets the three of its span to those
\* of its own call, so after two racing calls the span holds those of the
\* call applied last; no other step changes a stored span.
C14_AtomicPerRecord ==
  /\ [](/\ \A i \in DOMAIN spans : Unended(spans[i]) \/ EndedByOne(spans[i])
        /\ ret.op = "get_trace" =>
             \A k \in DOMAIN ret.out.spans :
               Unended(ret.out.spans[k]) \/ EndedByOne(ret.out.spans[k]))
  /\ [][/\ NewSpansOpen
        /\ \A i \in DOMAIN spans :
             /\ i \in DOMAIN spans'
             /\ \A e \in ending \ ending' :
                  spans'[i] =
                    IF spans[i].span_id = e.span_id
                      THEN [spans[i] EXCEPT !.end_ts = IsoFormat(e.at),
                                            !.status = e.status,
                                            !.tags = e.tags]
                      ELSE spans[i]
             /\ ending \ ending' = {} => spans'[i] = spans[i]]_vars

\* C14 witness: get_trace returned the first span ended by caller b and a
\* second span un-ended, while the end_span of caller a on the first span,
\* which took its timestamp before b's, has not run its UPDATE yet.
C14_Witness ==
  /\ ret.op = "get_trace"
  /\ Len(ret.out.spans) = 2
  /\ \E k \in DOMAIN ret.out.spans : Unended(ret.out.spans[k])
  /\ \E k \in DOMAIN ret.out.spans :
       /\ ret.out.spans[k] = spans[1]
       /\ spans[1].status = "error" /\ spans[1].tags = {<<"by", "b">>}
       /\ \E e \in ending :
            /\ e.by = "a" /\ e.span_id = spans[1].span_id
            /\ e.at < EndOf(spans[1])
\* ------------------------------------------------------------- claims: ids
\* A step in which start_span returned or raised.
StartSpanStep ==
  ret'.op = "start_span" /\ now' = now /\ pending' = pending /\ ending' = ending

\* C15: no two stored spans share a span_id.  A start_span either adds one
\* span, whose span_id is the one returned and was not stored before, whose
\* trace_id is the one supplied or, when none was supplied, not the
\* trace_id of any span stored before; or its INSERT meets a stored span_id,
\* fails (sqlite3.IntegrityError, the store's DuplicateKey) and changes
\* nothing.
C15_SpanIdsUnique ==
  /\ [](\A i, j \in DOMAIN spans :
          spans[i].span_id = spans[j].span_id => i = j)
  /\ [][StartSpanStep =>
          \/ /\ ret'.err = "none"
             /\ Len(spans') = Len(spans) + 1
             /\ SubSeq(spans', 1, Len(spans)) = spans
             /\ LET new == spans'[Len(spans')]
                IN  /\ new.span_id = ret'.out
                    /\ new.span_id \notin SpanIds
                    /\ ret'.arg[1] # NULL => new.trace_id = ret'.arg[1]
                    /\ ret'.arg[1] = NULL => new.trace_id \notin TraceIds
          \/ /\ ret'.err = "IntegrityError"
             /\ spans' = spans]_vars

\* C15 witness: a start_span failed on a stored span_id and left the two
\* stored spans as they were, one in a generated trace, one in a supplied
\* trace.
C15_Witness ==
  /\ ret.op = "start_span" /\ ret.err = "IntegrityError"
  /\ Len(spans) = 2
  /\ spans[1].span_id # spans[2].span_id
  /\ \E i, j \in DOMAIN spans :
       /\ spans[i].trace_id \in ForeignIds
       /\ spans[j].trace_id \notin ForeignIds
\* ------------------------------------------------------------- claims: exporter
\* A step in which an export_* call returned.
ExportStep ==
  ret'.op \in {"export_metrics", "export_traces", "export_logs"}
    /\ now' = now /\ pending' = pending /\ ending' = ending

\* The reply a 2xx status.
Is2xx(reply) == reply.k = "status" /\ reply.code \in 200..299

\* C16 (as claimed): an export_* call sends exactly one request, raises
\* nothing and returns a boolean, true iff the request was answered with a
\* 2xx status; requests sent earlier are not sent again.
C16_OneAttemptTrueIff2xx ==
  [][ExportStep =>
       /\ Len(wire') = Len(wire) + 1
       /\ SubSeq(wire', 1, Len(wire)) = wire
       /\ ret'.err = "none"
       /\ ret'.out \in BOOLEAN
       /\ ret'.out <=> Is2xx(wire'[Len(wire')].reply)]_vars
\* ------------------------------------------------------------- claims: repeated alerts
\* A step in which alert_rules returned or raised.
AlertRulesStep ==
  ret'.op = "alert_rules" /\ now' = now /\ pending' = pending /\ ending' = ending

\* The stored rows in the 5-minute window of the last call that break the
\* error-rate rule, and those that break the latency rule.
HighRows ==
  {i \in AlertRows : /\ Contains(metrics[i].name, <<"error_rate">>)
                     /\ Exceeds(metrics[i].value, ErrorRateThreshold)}
MediumRows ==
  {i \in AlertRows : /\ Contains(metrics[i].name, <<"p99_latency">>)
                     /\ Exceeds(metrics[i].value, P99Threshold)}

\* C17 (as claimed): alert_rules changes no metric, span or log; a call
\* repeated with the same rows stored and the same clock gives the same
\* result; each call reports every violating row that is in its 5-minute
\* window, however often it was reported before, and nothing for the rows
\* outside it.
C17_StatelessRepeats ==
  /\ [](ret.op = "alert_rules" =>
          /\ \A i \in HighRows : Returns(ret.out, HighViolation(metrics[i]))
          /\ \A i \in MediumRows : Returns(ret.out, MediumViolation(metrics[i]))
          /\ Len(ret.out) = Cardinality(HighRows) + Cardinality(MediumRows))
  /\ [][AlertRulesStep =>
          /\ metrics' = metrics /\ spans' = spans /\ logs' = logs
          /\ (ret.op = "alert_rules" /\ ret.at = now) =>
               (ret'.err = ret.err /\ ret'.out = ret.out)]_vars
\* ------------------------------------------------------------- claims: end_span frame
\* C18: end_span(span_id, status, tags) leaves metrics and logs as they
\* are, adds and removes no span, leaves every span with another span_id as
\* it is, and of the span with that span_id changes nothing but end_ts,
\* status and tags.
C18_EndSpanFrame ==
  [][EndSpanStep =>
       /\ metrics' = metrics
       /\ logs' = logs
       /\ Len(spans') = Len(spans)
       /\ \A i \in DOMAIN spans :
            IF spans[i].span_id = ret'.arg[1]
              THEN /\ spans'[i].trace_id = spans[i].trace_id
                   /\ spans'[i].span_id = spans[i].span_id
                   /\ spans'[i].parent_span_id = spans[i].parent_span_id
                   /\ spans'[i].service = spans[i].service
                   /\ spans'[i].operation = spans[i].operation
                   /\ spans'[i].start_ts = spans[i].start_ts
              ELSE spans'[i] = spans[i]]_vars

\* C18 witness: an end_span has just set end, status error and tags on one
\* span, started earlier, beside an un-ended span, a log and the metrics.
C18_Witness ==
  /\ ret.op = "end_span" /\ ret.arg[2] = "error"
  /\ logs # <<>> /\ metrics # <<>>
  /\ \E i, j \in DOMAIN spans :
       /\ spans[i].span_id = ret.arg[1]
       /\ spans[i].status = "error" /\ spans[i].tags = ret.arg[3]
       /\ EndOf(spans[i]) = ret.at
       /\ StartOf(spans[i]) < EndOf(spans[i])
       /\ ~Ended(spans[j])
\* ------------------------------------------------------------- claims: construction
\* A step in which ObservabilityPlatform() was constructed, by a caller or
\* by a run of main().
ConstructStep ==
  ret'.op \in {"__init__", "main"}
    /\ now' = now /\ pending' = pending /\ ending' = ending

SampleFields == {<<"requests_per_minute">>, <<"error_rate">>, <<"p99_latency", "_ms">>}
ServiceSet == {SERVICES[i] : i \in DOMAIN SERVICES}

\* The rows of rows from position from on that are named field of service.
RowsNamed(rows, from, service, field) ==
  {i \in DOMAIN rows : i >= from /\ rows[i].name = ServiceMetric(service, field)}

\* C19: a construction adds fifteen rows to metrics, one of each of the
\* three sample names for each of the five services, with ids not stored
\* before, changes no stored metric, no span and no log; the rows written
\* by callers aside, n constructions leave 15 * n rows, n of each sample
\* name.
C19_ConstructionAppendsSamples ==
  /\ [](Len(metrics) = 3 * Len(SERVICES) * platforms + CallerMetrics
        /\ CallerMetrics >= 0 /\ CallerMetrics <= MaxMetricCalls
        /\ \A s \in ServiceSet, f \in SampleFields :
             Cardinality(RowsNamed(metrics, 1, s, f)) = platforms)
  /\ [][ConstructStep =>
          /\ Len(metrics') = Len(metrics) + 3 * Len(SERVICES)
          /\ SubSeq(metrics', 1, Len(metrics)) = metrics
          /\ \A s \in ServiceSet, f \in SampleFields :
               Cardinality(RowsNamed(metrics', Len(metrics) + 1, s, f)) = 1
          /\ \A i \in DOMAIN metrics' :
               i > Len(metrics) => metrics'[i].id \notin MetricIds
          /\ spans' = spans
          /\ logs' = logs]_vars

\* C19 witness: a run of a command has just made the third construction on
\* a store holding a span, a log and a caller's metric: 45 sample rows lie
\* beside them, three of them named gateway.p99_latency_ms.
C19_Witness ==
  /\ ret.op = "main" /\ ret.arg[1] = "dashboard"
  /\ platforms = 3
  /\ spans # <<>> /\ logs # <<>> /\ CallerMetrics > 0
  /\ Len(metrics) = 45 + CallerMetrics
  /\ Cardinality(RowsNamed(metrics, 1, "gateway", <<"p99_latency", "_ms">>)) = 3
====
